---- MODULE Spec2Model ----
(***************************************************************************)
(* A model of package checkpoint (checkpoint.go): the Checkpoint error     *)
(* node, the builders From and Wrap with their Options, and the methods    *)
(* Error, Unwrap, Is, As, File and Line.                                   *)
(*                                                                         *)
(* Error values are records.  NIL is the nil error.  A value of kind       *)
(* "errorString" is what errors.New returns, a value of kind "wrapError"   *)
(* is what fmt.Errorf("...%w", inner) returns.  A Checkpoint returned by   *)
(* From or Wrap is boxed in an error interface: it is the reference        *)
(* [kind |-> "Checkpoint", id |-> i] to the i-th allocated node.  A client *)
(* holding a node can also pass its address, a *Checkpoint: the reference  *)
(* [kind |-> "*Checkpoint", id |-> i].                                     *)
(*                                                                         *)
(* Strings are sequences of pieces; a newline and a tab are pieces of      *)
(* their own, so that strings.ReplaceAll on "\n" is computed.              *)
(***************************************************************************)
EXTENDS Integers, Sequences, FiniteSets, TLC

VARIABLES
    nodes,      \* the Checkpoint values allocated so far, in allocation order
    call,       \* the last call made: its name and arguments
    ret,        \* what the last call returned
    wrapCalls   \* how many times Wrap has been called

vars == <<nodes, call, ret, wrapCalls>>

-----------------------------------------------------------------------------
(* Bounds of the model. *)

\* Spec: at most this many Checkpoints are allocated.
MaxNodes == 2
\* Spec: at most this many Options are passed to one builder call.
MaxOpts == 2
\* SpecChain: the chain has at most this many Checkpoints.
MaxChain == 3
\* SpecChain: Wrap is called at most this many times.
MaxWraps == 3

-----------------------------------------------------------------------------
(* Strings. *)

NL == "\n"
TAB == "\t"

\* strings.Replace(s, "\n", "\n\t", 1): only the first newline is replaced
RECURSIVE ReplaceFirstNL(_)
ReplaceFirstNL(s) ==
    IF s = <<>> THEN <<>>
    ELSE IF Head(s) = NL THEN <<NL, TAB>> \o Tail(s)
    ELSE <<Head(s)>> \o ReplaceFirstNL(Tail(s))

\* strings.ReplaceAll(s, "\n", "\n\t")
RECURSIVE ReplaceAllNL(_)
ReplaceAllNL(s) ==
    IF s = <<>> THEN <<>>
    ELSE IF Head(s) = NL THEN <<NL, TAB>> \o ReplaceAllNL(Tail(s))
    ELSE <<Head(s)>> \o ReplaceAllNL(Tail(s))

\* the %d verb of fmt.Sprintf
Itoa(n) == ToString(n)

\* filepath.Base on a path given as its components; Base("") is "."
FilepathBase(path) ==
    IF path = <<>> THEN "." ELSE path[Len(path)]

-----------------------------------------------------------------------------
(* Error values. *)

NIL == [kind |-> "nil"]

\* io.EOF and io.ErrUnexpectedEOF
EOF == [kind |-> "errorString", s |-> <<"EOF">>]
ErrUnexpectedEOF == [kind |-> "errorString", s |-> <<"unexpected EOF">>]
\* errors of the client: errors.New("A"), errors.New("l1\nl2\nl3"),
\* errors.New("closed") and fmt.Errorf("read: %w", io.EOF)
ErrA == [kind |-> "errorString", s |-> <<"A">>]
ErrM == [kind |-> "errorString", s |-> <<"l1", NL, "l2", NL, "l3">>]
ErrClosed == [kind |-> "errorString", s |-> <<"closed">>]
ErrW == [kind |-> "wrapError", s |-> <<"read: ", "EOF">>, inner |-> EOF]

Foreign == {EOF, ErrUnexpectedEOF, ErrA, ErrM, ErrClosed, ErrW}

CheckpointVal(i) == [kind |-> "Checkpoint", id |-> i]
CheckpointPtr(i) == [kind |-> "*Checkpoint", id |-> i]

IsNode(v) == v.kind \in {"Checkpoint", "*Checkpoint"}

\* the type assertion e.prev.(*Checkpoint)
IsPtrCheckpoint(v) == v.kind = "*Checkpoint"

-----------------------------------------------------------------------------
(* Options. *)

\* IgnoreEOF matching with errors.Is instead of ==
IgnoreEOFByIs(err) ==
    IF err = EOF \/ (err.kind = "wrapError" /\ err.inner = EOF) THEN EOF
    ELSE IF err = ErrUnexpectedEOF
              \/ (err.kind = "wrapError" /\ err.inner = ErrUnexpectedEOF)
         THEN ErrUnexpectedEOF
    ELSE NIL

\* the Option IgnoreEOF() returns
IgnoreEOF(err) ==
    IF err = EOF THEN EOF
    ELSE IF err = ErrUnexpectedEOF THEN ErrUnexpectedEOF
    ELSE NIL

\* an Option of the client: it replaces a nil error and io.EOF by ErrClosed
CloseOption(err) ==
    IF err = NIL \/ err = EOF THEN ErrClosed ELSE NIL

Options == {"IgnoreEOF", "CloseOption"}

\* o(err) for an Option o
CallOption(o, err) ==
    IF o = "IgnoreEOF" THEN IgnoreEOF(err) ELSE CloseOption(err)

\* the loop without its early return: the last non-nil result wins
RECURSIVE ApplyOptionsLast(_, _)
ApplyOptionsLast(options, err) ==
    IF options = <<>> THEN NIL
    ELSE LET newErr == CallOption(options[Len(options)], err)
         IN  IF newErr # NIL THEN newErr
             ELSE ApplyOptionsLast(SubSeq(options, 1, Len(options) - 1), err)

\* the loop over the options at the head of From and of Wrap: the first
\* non-nil result, or NIL when every option returns nil
RECURSIVE ApplyOptions(_, _)
ApplyOptions(options, err) ==
    IF options = <<>> THEN NIL
    ELSE LET newErr == CallOption(Head(options), err)
         IN  IF newErr # NIL THEN newErr
             ELSE ApplyOptions(Tail(options), err)

-----------------------------------------------------------------------------
(* The builders.  A frame is what runtime.Caller(1) returns.  Each builder *)
(* yields the value returned and the nodes allocated after the call.       *)

NewCheckpoint(err, prev, frame) ==
    [err |-> err, prev |-> prev, callerOk |-> frame.ok,
     file |-> FilepathBase(frame.file), line |-> frame.line]

\* a builder that writes the new Checkpoint over the newest one
AllocateInPlace(ns, cp) ==
    IF ns = <<>> THEN <<cp>> ELSE [ns EXCEPT ![Len(ns)] = cp]

Allocate(ns, cp) == Append(ns, cp)

From(ns, err, options, frame) ==
    LET newErr == ApplyOptions(options, err)
    IN  IF newErr # NIL THEN [ret |-> newErr, nodes |-> ns]
        ELSE IF err = NIL THEN [ret |-> NIL, nodes |-> ns]
        ELSE [ret |-> CheckpointVal(Len(ns) + 1),
              nodes |-> Allocate(ns, NewCheckpoint(err, NIL, frame))]

\* Wrap without the check of prev
WrapNoPrevCheck(ns, prev, err, options, frame) ==
    LET newErr == ApplyOptions(options, err)
    IN  IF newErr # NIL THEN [ret |-> newErr, nodes |-> ns]
        ELSE [ret |-> CheckpointVal(Len(ns) + 1),
              nodes |-> Allocate(ns, NewCheckpoint(err, prev, frame))]

\* Wrap that returns nil for a nil err, as From does
WrapNilErr(ns, prev, err, options, frame) ==
    LET newErr == ApplyOptions(options, err)
    IN  IF newErr # NIL THEN [ret |-> newErr, nodes |-> ns]
        ELSE IF prev = NIL \/ err = NIL THEN [ret |-> NIL, nodes |-> ns]
        ELSE [ret |-> CheckpointVal(Len(ns) + 1),
              nodes |-> Allocate(ns, NewCheckpoint(err, prev, frame))]

\* Wrap that links the new Checkpoint to itself
WrapSelf(ns, prev, err, options, frame) ==
    LET newErr == ApplyOptions(options, err)
    IN  IF newErr # NIL THEN [ret |-> newErr, nodes |-> ns]
        ELSE IF prev = NIL THEN [ret |-> NIL, nodes |-> ns]
        ELSE [ret |-> CheckpointVal(Len(ns) + 1),
              nodes |-> Allocate(ns, NewCheckpoint(err, CheckpointVal(Len(ns) + 1),
                                                   frame))]

Wrap(ns, prev, err, options, frame) ==
    LET newErr == ApplyOptions(options, err)
    IN  IF newErr # NIL THEN [ret |-> newErr, nodes |-> ns]
        ELSE IF prev = NIL THEN [ret |-> NIL, nodes |-> ns]
        ELSE [ret |-> CheckpointVal(Len(ns) + 1),
              nodes |-> Allocate(ns, NewCheckpoint(err, prev, frame))]

-----------------------------------------------------------------------------
(* The methods of Checkpoint. *)

\* err.Error() of any non-nil error, and Checkpoint.Error of a node
RECURSIVE ErrorString(_, _)
CheckpointError(ns, e) ==
    LET prevErrString ==
            IF e.prev # NIL
            THEN IF IsPtrCheckpoint(e.prev)
                 THEN ErrorString(ns, e.prev)
                 ELSE <<"File: unknown", NL, TAB>>
                          \o ReplaceAllNL(ErrorString(ns, e.prev))
            ELSE <<>>
        errString == IF e.err = NIL THEN <<"<nil>">> ELSE ErrorString(ns, e.err)
    IN  IF e.callerOk
        THEN <<"File: ", e.file, ":", Itoa(e.line), NL, TAB>>
                 \o errString \o <<NL>> \o prevErrString
        ELSE <<"File: unknown", NL, TAB>> \o errString \o <<NL>> \o prevErrString

ErrorString(ns, v) ==
    IF IsNode(v) THEN CheckpointError(ns, ns[v.id]) ELSE v.s

CheckpointUnwrap(e) == e.prev

CheckpointFile(e) == e.file

CheckpointLine(e) == e.line

\* errors.Unwrap
ErrorsUnwrap(ns, v) ==
    IF IsNode(v) THEN CheckpointUnwrap(ns[v.id])
    ELSE IF v.kind = "wrapError" THEN v.inner
    ELSE NIL

\* errors.Is; a Checkpoint has an Is method, which errors.Is calls
RECURSIVE ErrorsIs(_, _, _)
\* Is that also looks into the wrapped error
CheckpointIsPrev(ns, e, target) ==
    ErrorsIs(ns, e.err, target) \/ ErrorsIs(ns, e.prev, target)

CheckpointIs(ns, e, target) == ErrorsIs(ns, e.err, target)

ErrorsIs(ns, err, target) ==
    IF err = NIL \/ target = NIL THEN err = target
    ELSE IF err = target THEN TRUE
    ELSE IF IsNode(err) /\ CheckpointIs(ns, ns[err.id], target) THEN TRUE
    ELSE ErrorsIs(ns, ErrorsUnwrap(ns, err), target)

\* errors.As for a target of type *T, T one of the kinds: the value found,
\* or NIL when As returns false
RECURSIVE ErrorsAs(_, _, _)
CheckpointAs(ns, e, type) == ErrorsAs(ns, e.err, type)

ErrorsAs(ns, err, type) ==
    IF err = NIL THEN NIL
    ELSE IF err.kind = type THEN err
    ELSE IF IsNode(err) /\ CheckpointAs(ns, ns[err.id], type) # NIL
         THEN CheckpointAs(ns, ns[err.id], type)
    ELSE ErrorsAs(ns, ErrorsUnwrap(ns, err), type)

-----------------------------------------------------------------------------------------------------------------------------------------------------
(* The calls a client makes.  wrapCalls is a history variable: the        *)
(* specification that counts the calls of Wrap updates it.                 *)

NoCall == [op |-> "none"]

Init ==
    /\ nodes = <<>>
    /\ call = NoCall
    /\ ret = NIL
    /\ wrapCalls = 0

CallFrom(err, options, frame) ==
    LET r == From(nodes, err, options, frame)
    IN  /\ nodes' = r.nodes
        /\ ret' = r.ret
        /\ call' = [op |-> "From", err |-> err, options |-> options,
                    before |-> Len(nodes)]

CallWrap(prev, err, options, frame) ==
    LET r == Wrap(nodes, prev, err, options, frame)
    IN  /\ nodes' = r.nodes
        /\ ret' = r.ret
        /\ call' = [op |-> "Wrap", prev |-> prev, err |-> err,
                    options |-> options, before |-> Len(nodes)]

CallError(i) ==
    /\ ret' = CheckpointError(nodes, nodes[i])
    /\ call' = [op |-> "Error", node |-> i]
    /\ UNCHANGED nodes

CallUnwrap(i) ==
    /\ ret' = CheckpointUnwrap(nodes[i])
    /\ call' = [op |-> "Unwrap", node |-> i]
    /\ UNCHANGED nodes

CallIs(i, target) ==
    /\ ret' = CheckpointIs(nodes, nodes[i], target)
    /\ call' = [op |-> "Is", node |-> i, target |-> target]
    /\ UNCHANGED nodes

CallAs(i, type) ==
    /\ ret' = CheckpointAs(nodes, nodes[i], type)
    /\ call' = [op |-> "As", node |-> i, type |-> type]
    /\ UNCHANGED nodes

CallFile(i) ==
    /\ ret' = CheckpointFile(nodes[i])
    /\ call' = [op |-> "File", node |-> i]
    /\ UNCHANGED nodes

CallLine(i) ==
    /\ ret' = CheckpointLine(nodes[i])
    /\ call' = [op |-> "Line", node |-> i]
    /\ UNCHANGED nodes

-----------------------------------------------------------------------------
(* Spec: a client that calls the builders with Options, and the methods    *)
(* on the nodes it holds.                                                  *)

\* The builder call that allocates node n stands on line 9 + n of x.go;
\* runtime.Caller finds the frame or fails.
Frames(n) ==
    {[ok |-> TRUE, file |-> <<"src", "x.go">>, line |-> 9 + n],
     [ok |-> FALSE, file |-> <<>>, line |-> 0]}

\* the lists of at most n Options, no Option twice in a list
OptionLists(n) ==
    {l \in UNION {[1..k -> Options] : k \in 0..n} :
        \A i, j \in DOMAIN l : l[i] = l[j] => i = j}

\* the error From annotates
ErrArgs == {NIL, EOF, ErrUnexpectedEOF, ErrW}

\* the error Wrap attaches
WrapErrArgs == {NIL, EOF, ErrW}

\* the error to wrap: nil, a foreign error, or a node held by value
PrevArgs == {NIL, ErrM} \cup {CheckpointVal(i) : i \in 1..Len(nodes)}

Targets == {EOF, ErrW}

Types == {"errorString"}

DoFrom ==
    /\ Len(nodes) < MaxNodes
    /\ \E err \in ErrArgs, options \in OptionLists(MaxOpts),
          frame \in Frames(Len(nodes) + 1) :
          CallFrom(err, options, frame)
    /\ UNCHANGED wrapCalls

DoWrap ==
    /\ Len(nodes) < MaxNodes
    /\ \E prev \in PrevArgs, err \in WrapErrArgs, options \in OptionLists(MaxOpts),
          frame \in Frames(Len(nodes) + 1) :
          CallWrap(prev, err, options, frame)
    /\ UNCHANGED wrapCalls

DoError == (\E i \in 1..Len(nodes) : CallError(i)) /\ UNCHANGED wrapCalls

DoUnwrap == (\E i \in 1..Len(nodes) : CallUnwrap(i)) /\ UNCHANGED wrapCalls

DoIs ==
    /\ \E i \in 1..Len(nodes), target \in Targets : CallIs(i, target)
    /\ UNCHANGED wrapCalls

DoAs ==
    /\ \E i \in 1..Len(nodes), type \in Types : CallAs(i, type)
    /\ UNCHANGED wrapCalls

DoFile == (\E i \in 1..Len(nodes) : CallFile(i)) /\ UNCHANGED wrapCalls

DoLine == (\E i \in 1..Len(nodes) : CallLine(i)) /\ UNCHANGED wrapCalls

Next ==
    \/ DoFrom
    \/ DoWrap
    \/ DoError
    \/ DoUnwrap
    \/ DoIs
    \/ DoAs
    \/ DoFile
    \/ DoLine

Spec == Init /\ [][Next]_vars

-----------------------------------------------------------------------------
(* SpecChain: a client that builds one chain without Options, From or Wrap *)
(* of a foreign error first and then Wrap of the head, held by value or by *)
(* address, and calls the methods on its nodes.  It counts the calls of    *)
(* Wrap.                                                                   *)

\* the errors.New values the chain annotates
ChainErrs == {EOF, ErrA, ErrM}

ChainTargets == ChainErrs \cup {ErrClosed}

ChainFrom ==
    /\ nodes = <<>>
    /\ \E err \in ChainErrs \cup {NIL} :
          CallFrom(err, <<>>, [ok |-> TRUE, file |-> <<"src", "x.go">>, line |-> 10])
    /\ UNCHANGED wrapCalls

ChainWrap ==
    /\ Len(nodes) < MaxChain
    /\ wrapCalls < MaxWraps
    /\ \E prev \in IF nodes = <<>> THEN {NIL, ErrClosed}
                   ELSE {CheckpointVal(Len(nodes)), CheckpointPtr(Len(nodes))},
          err \in ChainErrs \cup {NIL} :
          CallWrap(prev, err, <<>>,
                   [ok |-> TRUE, file |-> <<"src", "x.go">>, line |-> 10 + Len(nodes)])
    /\ wrapCalls' = wrapCalls + 1

ChainIs ==
    /\ \E i \in 1..Len(nodes), target \in ChainTargets : CallIs(i, target)
    /\ UNCHANGED wrapCalls

NextChain ==
    \/ ChainFrom
    \/ ChainWrap
    \/ ChainIs
    \/ DoError
    \/ DoUnwrap
    \/ DoFile
    \/ DoLine

SpecChain == Init /\ [][NextChain]_vars

-----------------------------------------------------------------------------
(* Vocabulary of the properties. *)

IsBuilderCall == call.op \in {"From", "Wrap"}

\* the nodes allocated before the last builder call
Before == SubSeq(nodes, 1, call.before)

\* the last builder call allocated a node
Created == Len(nodes) > call.before

\* no option of the list returns a non-nil error for err
NoOverride(options, err) ==
    \A k \in DOMAIN options : CallOption(options[k], err) = NIL

\* the outcome of the last builder call is that of the same call without
\* options, for some frame of the caller
AsWithoutOptions ==
    \E frame \in Frames(call.before + 1) :
        [ret |-> ret, nodes |-> nodes] =
            IF call.op = "From" THEN From(Before, call.err, <<>>, frame)
            ELSE Wrap(Before, call.prev, call.err, <<>>, frame)

\* "File: <file>:<line>\n\t<annotation>\n", or "File: unknown\n\t<annotation>\n"
OwnBlock(ns, e) ==
    (IF e.callerOk THEN <<"File: ", e.file, ":", Itoa(e.line)>>
     ELSE <<"File: unknown">>)
        \o <<NL, TAB>>
        \o (IF e.err = NIL THEN <<"<nil>">> ELSE ErrorString(ns, e.err))
        \o <<NL>>

\* the lines of a message, and the message with a tab before every line
\* but the first
RECURSIVE Lines(_)
Lines(m) ==
    IF \A k \in DOMAIN m : m[k] # NL THEN <<m>>
    ELSE LET k == CHOOSE k \in DOMAIN m :
                      m[k] = NL /\ \A j \in 1..(k - 1) : m[j] # NL
         IN  <<SubSeq(m, 1, k - 1)>> \o Lines(SubSeq(m, k + 1, Len(m)))

RECURSIVE JoinTabbed(_)
JoinTabbed(ls) ==
    IF Len(ls) = 1 THEN ls[1]
    ELSE ls[1] \o <<NL, TAB>> \o JoinTabbed(Tail(ls))

EndsWith(s, t) ==
    Len(t) <= Len(s) /\ SubSeq(s, Len(s) - Len(t) + 1, Len(s)) = t

StartsWith(s, t) == Len(t) <= Len(s) /\ SubSeq(s, 1, Len(t)) = t

\* how many times Unwrap is applied, starting at node i, until it returns nil
\* or a foreign error; -1 when that takes more than fuel applications
RECURSIVE UnwrapSteps(_, _, _)
UnwrapSteps(ns, i, fuel) ==
    IF fuel = 0 THEN -1
    ELSE LET c == CheckpointUnwrap(ns[i])
         IN  IF ~IsNode(c) THEN 1
             ELSE LET r == UnwrapSteps(ns, c.id, fuel - 1)
                  IN  IF r = -1 THEN -1 ELSE r + 1

\* the nodes are a chain n1 = From(e1), n(i+1) = Wrap(n(i), e(i+1)) of
\* distinct errors.New values
PlainChain ==
    /\ nodes # <<>>
    /\ nodes[1].prev = NIL
    /\ \A i \in 2..Len(nodes) : nodes[i].prev = CheckpointVal(i - 1)
    /\ \A i \in 1..Len(nodes) : nodes[i].err \in ChainErrs
    /\ \A i, j \in 1..Len(nodes) : nodes[i].err = nodes[j].err => i = j

-----------------------------------------------------------------------------
(* The properties. *)

\* C1: Error() of a node whose cause is a Checkpoint returned by From or
\* Wrap is the node's own block followed by the cause's Error(), verbatim.
C1_NestedErrorVerbatim ==
    \A i \in 1..Len(nodes) :
        nodes[i].prev.kind = "Checkpoint" =>
            CheckpointError(nodes, nodes[i]) =
                OwnBlock(nodes, nodes[i])
                    \o CheckpointError(nodes, nodes[nodes[i].prev.id])

\* C2: Wrap returns nil whenever prev is nil, whatever err and the options.
C2_WrapNilPrevIsNil ==
    (call.op = "Wrap" /\ call.prev = NIL) => ret = NIL

\* C3: when no option overrides, From(nil) and Wrap(nil, e) return nil and
\* allocate no node.
C3_NilInNilOut ==
    (/\ IsBuilderCall
     /\ NoOverride(call.options, call.err)
     /\ \/ call.op = "From" /\ call.err = NIL
        \/ call.op = "Wrap" /\ call.prev = NIL)
        => (ret = NIL /\ nodes = Before)

C3_Witness ==
    /\ call.op = "Wrap"
    /\ call.prev = NIL
    /\ call.err = ErrW
    /\ call.options = <<"IgnoreEOF", "CloseOption">>
    /\ ret = NIL
    /\ Len(nodes) = 1

C5_IgnoreEOF ==
    (call.op = "From" /\ call.options = <<"IgnoreEOF">>) =>
        IF call.err \in {EOF, ErrUnexpectedEOF}
        THEN ret = call.err /\ nodes = Before
        ELSE IgnoreEOF(call.err) = NIL /\ AsWithoutOptions

C5_Witness ==
    /\ call.op = "From"
    /\ call.options = <<"IgnoreEOF">>
    /\ call.err = ErrW
    /\ Created
    /\ ret = CheckpointVal(Len(nodes))
    /\ nodes[Len(nodes)].err = ErrW

\* C6: Wrap(prev, nil) with prev not nil and no overriding option allocates
\* a node with a nil err whose Unwrap() is prev.
C6_WrapNilErr ==
    (/\ call.op = "Wrap"
     /\ call.prev # NIL
     /\ call.err = NIL
     /\ NoOverride(call.options, NIL))
        => /\ Created
           /\ ret = CheckpointVal(Len(nodes))
           /\ nodes[ret.id].err = NIL
           /\ CheckpointUnwrap(nodes[ret.id]) = call.prev

C6_Witness ==
    /\ call.op = "Wrap"
    /\ call.prev = CheckpointVal(1)
    /\ call.err = NIL
    /\ call.options = <<"IgnoreEOF">>
    /\ ret = CheckpointVal(2)
    /\ CheckpointUnwrap(nodes[2]) = CheckpointVal(1)

\* C7: in a chain n1 = From(e1), n(i+1) = Wrap(n(i), e(i+1)) of distinct
\* errors.New values, n(i).Is(e(j)) exactly when i = j, Unwrap() of n(i+1)
\* is n(i) and of n1 is nil, and k - 1 applications of Unwrap lead from the
\* head n(k) to the one node for which Is(e1) holds.
C7_ChainIs ==
    PlainChain =>
        /\ \A i, j \in 1..Len(nodes) :
              CheckpointIs(nodes, nodes[i], nodes[j].err) <=> (i = j)
        /\ \A i \in 1..Len(nodes), t \in ChainTargets :
              CheckpointIs(nodes, nodes[i], t) <=> (t = nodes[i].err)
        /\ CheckpointUnwrap(nodes[1]) = NIL
        /\ \A i \in 2..Len(nodes) :
              CheckpointUnwrap(nodes[i]) = CheckpointVal(i - 1)
        /\ UnwrapSteps(nodes, Len(nodes), Len(nodes) + 1) = Len(nodes)
        /\ (call.op = "Is" /\ call.target = nodes[call.node].err) => ret = TRUE
        /\ (call.op = "Is" /\ call.target # nodes[call.node].err) => ret = FALSE

C7_Witness ==
    /\ PlainChain
    /\ Len(nodes) = 3
    /\ call.op = "Is"
    /\ call.node = 3
    /\ call.target = nodes[1].err
    /\ ret = FALSE

\* C8: Error() of a node whose cause is a foreign error with message m ends
\* with "File: unknown\n\t" and m, a tab before every line of m but the
\* first; Error() of a node without a cause is the node's own block.
C8_ForeignCause ==
    \A i \in 1..Len(nodes) :
        LET e == nodes[i]
            text == CheckpointError(nodes, e)
        IN  /\ e.prev \in Foreign =>
                 text = OwnBlock(nodes, e) \o <<"File: unknown", NL, TAB>>
                            \o JoinTabbed(Lines(e.prev.s))
            /\ e.prev = NIL => text = OwnBlock(nodes, e)
            /\ (call.op = "Error" /\ call.node = i) => ret = text

C8_Witness ==
    /\ call.op = "Error"
    /\ nodes[call.node].prev = ErrM
    /\ EndsWith(ret, <<"File: unknown", NL, TAB,
                       "l1", NL, TAB, "l2", NL, TAB, "l3">>)

\* C9: a step changes no node that exists and allocates at most one.
C9_Immutable ==
    [][/\ Len(nodes) <= Len(nodes') /\ Len(nodes') <= Len(nodes) + 1
       /\ \A i \in 1..Len(nodes) : nodes'[i] = nodes[i]
       /\ call'.op \notin {"From", "Wrap"} => nodes' = nodes]_vars

C9_Witness ==
    /\ call.op = "Wrap"
    /\ call.prev = CheckpointVal(1)
    /\ Created
    /\ Len(nodes) = 2

\* C10 as stated: from every node, Unwrap reaches nil or a foreign error in
\* at most as many applications as Wrap has been called.
C10_StepsAtMostWrapCalls ==
    \A i \in 1..Len(nodes) :
        LET n == UnwrapSteps(nodes, i, Len(nodes) + 1)
        IN  n # -1 /\ n <= wrapCalls

\* C10 amended: the cause of a node is nil, a foreign error or a node
\* allocated before it, and from every node Unwrap reaches nil or a foreign
\* error in at most one application more than Wrap has been called.
C10_Acyclic ==
    \A i \in 1..Len(nodes) :
        LET n == UnwrapSteps(nodes, i, Len(nodes) + 1)
        IN  /\ IsNode(nodes[i].prev) => nodes[i].prev.id < i
            /\ n # -1
            /\ n <= wrapCalls + 1

C10_Witness ==
    /\ Len(nodes) = 3
    /\ wrapCalls = 2
    /\ call.op = "Unwrap"
    /\ call.node = 3
    /\ ret = CheckpointVal(2)
    /\ UnwrapSteps(nodes, 3, 4) = 3

====
